---- MODULE Spec2Model ----
(***************************************************************************)
(* Model of litellm_observatory: the TestQueue of queue.py (FIFO queue,    *)
(* counting semaphore, queued/running/completed indexes, admission loop,   *)
(* execution units) and the run_test handler of server.py that feeds it.   *)
(*                                                                         *)
(* Scheduling is asyncio's: one task runs at a time and keeps running      *)
(* until it suspends, so an action is the code between two suspension      *)
(* points.  queue.get() suspends only on an empty queue, semaphore         *)
(* acquire() only when no permit is free, and release() hands the permit   *)
(* directly to a waiting acquirer (asyncio.Semaphore._wake_up_next).       *)
(***************************************************************************)
EXTENDS Integers, Sequences, FiniteSets, TLC

\* ---------------------------------------------------------------- bounds
MaxJobs == 2             \* submissions accepted in one behaviour
MaxFP == 2               \* distinct fingerprints that are submitted
MaxTime == 1             \* clock readings after the start
MaxCeiling == 2          \* largest configured max_concurrent_tests
MaxBad == 1              \* malformed objects put on the queue
MaxModels == 3           \* length of the model list a suite is given
MaxDuration == 3         \* longest duration_hours, in clock ticks
MaxDen == 2              \* max_failure_rate is drawn from {0, 1/MaxDen, ..., 1}
MaxIdModels == 2         \* length of request.models when an id is generated
DigestBits == 8          \* bits of the digest prefix kept (the code keeps 64)
MaxSamples == 5          \* durations given to _percentile
MaxLatency == 5          \* largest duration, in whole units
MaxPDen == 2             \* p is also drawn from {0, 1/b, ..., 1}, b up to MaxPDen
MaxScenarios == 2   \* scenarios of a TestAccessGroupPerf run
MaxRequests == 2   \* requests_per_scenario

\* ------------------------------------------------------ program constants
HistoryCapacity == 100   \* len(self.completed_tests) > 100
NoTime == -1000          \* Optional[datetime] = None

QUEUED == "queued"
RUNNING == "running"
COMPLETED == "completed"
FAILED == "failed"
TestStatus == {QUEUED, RUNNING, COMPLETED, FAILED}

FPs == 1..MaxFP

BadId == 0               \* stands for a request_id that cannot be a dict key

VARIABLES
  max_concurrent_tests, \* self.max_concurrent_tests, set at construction
  now,              \* the reading datetime.now() returns
  jobs,             \* the QueuedTest objects, in order of creation
  queue,            \* self.queue: job indexes, head first
  unfinished_tasks, \* self.queue._unfinished_tasks
  queued_tests,     \* self.queued_tests: request_id -> job
  running_tests,    \* self.running_tests: request_id -> job
  completed_tests,  \* self.completed_tests, in dict insertion order
  sem_value,        \* self.semaphore._value
  loop_pc,          \* where self._queue_processor_task stands
  loop_held,        \* the loop's local queued_test (0: None)
  loop_cancel,      \* cancel() was called on the loop task, not yet delivered
  admitted,         \* log: jobs in the order they were marked running
  webhook_url,      \* slack_webhook.webhook_url is set
  test_runner,      \* the test_runner argument of the admission loop: the job
                    \* whose enqueue call passed it, 0 while no loop runs
  sink,             \* the calls made on slack_webhook, in order
  probe,            \* the TestOAIAzureRelease instance under observation
  idgen,            \* the request whose request id is generated
  perf,             \* the durations whose percentile is computed
  response          \* what the last run_test call returned or raised

vars == <<max_concurrent_tests, now, jobs, queue, unfinished_tasks, queued_tests, running_tests,
          completed_tests, sem_value, loop_pc, loop_held, loop_cancel,
          admitted, webhook_url, test_runner, sink, probe, idgen, perf, response>>

\* no suite instance is observed
NoProbe == [pc |-> "none"]

\* no request id is being generated
NoRequest == [pc |-> "none"]

\* no percentile is being computed
NoSample == [pc |-> "none"]

\* ------------------------------------------------------------ dict helpers
DictSet(d, k, v) == [x \in (DOMAIN d) \cup {k} |-> IF x = k THEN v ELSE d[x]]

DictPop(d, k) == [x \in (DOMAIN d) \ {k} |-> d[x]]

EmptyDict == [x \in {} |-> 0]

\* completed_tests keeps insertion order: a sequence of [key, job]
OrderedKeys(od) == {od[i].key : i \in 1..Len(od)}

OrderedIndex(od, k) == CHOOSE i \in 1..Len(od) : od[i].key = k

\* mutant: an assignment always adds an entry at the end
OrderedSet_appends(od, k, j) == Append(od, [key |-> k, job |-> j])

OrderedSet(od, k, j) ==
  IF k \in OrderedKeys(od)
  THEN [od EXCEPT ![OrderedIndex(od, k)] = [key |-> k, job |-> j]]
  ELSE Append(od, [key |-> k, job |-> j])

OrderedRemoveAt(od, i) ==
  [x \in 1..(Len(od) - 1) |-> IF x < i THEN od[x] ELSE od[x + 1]]

\* ------------------------------------------------------------ QueuedTest
QueuedTest(request_id) ==
  [request_id |-> request_id, status |-> QUEUED, queued_at |-> now,
   started_at |-> NoTime, completed_at |-> NoTime, task |-> "none"]

JobIds == 1..Len(jobs)

NumSubmitted == Cardinality({j \in JobIds : jobs[j].request_id \in FPs})

\* ------------------------------------------------------- duplicate check
is_duplicate(request_id) ==
  request_id \in DOMAIN running_tests \/ request_id \in DOMAIN queued_tests

NoInfo == [request_id |-> 0, status |-> "none", field |-> "none", at |-> NoTime]

\* mutant: only the running-index is consulted
get_duplicate_info_running_only(request_id) ==
  IF request_id \in DOMAIN running_tests
  THEN [request_id |-> request_id,
        status |-> jobs[running_tests[request_id]].status,
        field |-> "started_at",
        at |-> jobs[running_tests[request_id]].started_at]
  ELSE [request_id |-> 0, status |-> "none", field |-> "none", at |-> NoTime]

\* mutant: the queued-at timestamp is reported for a running job too
get_duplicate_info_queued_at(request_id) ==
  IF request_id \in DOMAIN running_tests
  THEN [request_id |-> request_id,
        status |-> jobs[running_tests[request_id]].status,
        field |-> "queued_at",
        at |-> jobs[running_tests[request_id]].queued_at]
  ELSE IF request_id \in DOMAIN queued_tests
  THEN [request_id |-> request_id,
        status |-> jobs[queued_tests[request_id]].status,
        field |-> "queued_at",
        at |-> jobs[queued_tests[request_id]].queued_at]
  ELSE [request_id |-> 0, status |-> "none", field |-> "none", at |-> NoTime]

get_duplicate_info(request_id) ==
  IF request_id \in DOMAIN running_tests
  THEN [request_id |-> request_id,
        status |-> jobs[running_tests[request_id]].status,
        field |-> "started_at",
        at |-> jobs[running_tests[request_id]].started_at]
  ELSE IF request_id \in DOMAIN queued_tests
  THEN [request_id |-> request_id,
        status |-> jobs[queued_tests[request_id]].status,
        field |-> "queued_at",
        at |-> jobs[queued_tests[request_id]].queued_at]
  ELSE NoInfo

get_queue_status ==
  [max_concurrent_tests |-> max_concurrent_tests,
   currently_running |-> Cardinality(DOMAIN running_tests),
   queued |-> Len(queue),
   recently_completed |-> Len(completed_tests)]

\* mutant: the jobs that wait are listed as well
get_running_tests_and_queued ==
  [request_id \in (DOMAIN running_tests) \cup (DOMAIN queued_tests) |->
     IF request_id \in DOMAIN running_tests
     THEN [status |-> jobs[running_tests[request_id]].status,
           started_at |-> jobs[running_tests[request_id]].started_at]
     ELSE [status |-> jobs[queued_tests[request_id]].status,
           started_at |-> jobs[queued_tests[request_id]].started_at]]

\* get_running_tests(): request_id -> the status and started_at of the job
\* (NoTime: None), over self.running_tests.items()
get_running_tests ==
  [request_id \in DOMAIN running_tests |->
     [status |-> jobs[running_tests[request_id]].status,
      started_at |-> jobs[running_tests[request_id]].started_at]]

\* ------------------------------------------------------------------ Init
Init ==
  /\ now = 0
  /\ jobs = <<>>
  /\ queue = <<>>
  /\ unfinished_tasks = 0
  /\ queued_tests = EmptyDict
  /\ running_tests = EmptyDict
  /\ completed_tests = <<>>
  /\ max_concurrent_tests \in 1..MaxCeiling
  /\ sem_value = max_concurrent_tests
  /\ loop_pc = "none"
  /\ loop_held = 0
  /\ loop_cancel = FALSE
  /\ admitted = <<>>
  /\ sink = <<>>
  /\ probe = NoProbe
  /\ idgen = NoRequest
  /\ perf = NoSample
  /\ webhook_url \in BOOLEAN
  /\ test_runner = 0
  /\ response = [code |-> 0, status |-> "none", info |-> NoInfo]

\* ------------------------------------------------------------- semaphore
\* mutant: the permit count is compared with the wrong bound
locked_below_zero(value) == value < 0

\* asyncio.Semaphore.locked() as the admission loop sees it: the loop is the
\* only acquirer, so while it runs no live waiter exists
locked(value) == value = 0

\* ------------------------------------------------------- admission loop
\* The loop's view of the state it reads and writes in one run
LoopState ==
  [queue |-> queue, sem |-> sem_value, jobs |-> jobs,
   running |-> running_tests, queued |-> queued_tests,
   pc |-> loop_pc, held |-> loop_held, admitted |-> admitted]

\* mutant: the handler forgets the queued-index
AdmissionFailed_keeps_index(s, j) ==
  [s EXCEPT !.jobs[j].status = FAILED,
            !.jobs[j].completed_at = now,
            !.sem = IF @ = 0 THEN @ + 1 ELSE @]

\* except Exception (lines 200-206): the statements after acquire() raised
\* before the job reached running_tests
AdmissionFailed(s, j) ==
  [s EXCEPT !.jobs[j].status = FAILED,
            !.jobs[j].completed_at = now,
            !.queued = DictPop(@, s.jobs[j].request_id),
            !.sem = IF locked(@) THEN @ + 1 ELSE @]

\* lines 188-196: mark running, move between the indexes, create the task
Admitted(s, j) ==
  [s EXCEPT !.jobs[j].status = RUNNING,
            !.jobs[j].started_at = now,
            !.jobs[j].task = "created",
            !.running = DictSet(@, s.jobs[j].request_id, j),
            !.queued = DictPop(@, s.jobs[j].request_id),
            !.admitted = Append(@, j)]

\* a job object put on self.queue whose request_id is not hashable: line 190
\* raises TypeError on it, and so does line 204 of the handler
Malformed(job) == job.request_id = BadId

\* mutant: the handler does not touch the indexes and falls through to the
\* release of line 205
HandlerRaised_survives(s, j) ==
  [s EXCEPT !.jobs[j].status = FAILED,
            !.jobs[j].completed_at = now,
            !.sem = IF @ = 0 THEN @ + 1 ELSE @]

\* lines 200-204 on a malformed job: the pop of line 204 raises inside the
\* handler, the exception leaves _process_queue and the loop task is done;
\* line 205 is not reached
HandlerRaised(s, j) ==
  [s EXCEPT !.jobs[j].status = FAILED,
            !.jobs[j].completed_at = now,
            !.pc = "done",
            !.held = 0]

\* the rest of an iteration once the permit is held; F: the jobs on which
\* the statements of lines 188-190 raise
AfterAcquire(s, j, F) ==
  IF Malformed(s.jobs[j]) THEN HandlerRaised(s, j)
  ELSE IF j \in F THEN AdmissionFailed(s, j) ELSE Admitted(s, j)

\* mutant: the loop takes the newest item
NextItem_lifo(q) == q[Len(q)]

\* queue.get(): the item the loop takes
NextItem(q) == Head(q)

\* _process_queue from its current position until it suspends: in
\* queue.get() on an empty queue or in semaphore.acquire() without a permit
RECURSIVE RunLoop(_, _)
RunLoop(s, F) ==
  IF s.pc = "done"
  THEN s
  ELSE IF s.pc = "granted"
  THEN RunLoop(AfterAcquire([s EXCEPT !.pc = "get", !.held = 0], s.held, F), F)
  ELSE IF s.queue = <<>>
  THEN s
  ELSE LET j == NextItem(s.queue)
           t == [s EXCEPT !.queue = SelectSeq(@, LAMBDA x : x # j)]
       IN IF ~locked(t.sem)
          THEN RunLoop(AfterAcquire([t EXCEPT !.sem = @ - 1], j, F), F)
          ELSE [t EXCEPT !.pc = "acquire", !.held = j]

\* the jobs the loop can reach in its next run
InFlight == {queue[i] : i \in 1..Len(queue)} \cup ({loop_held} \ {0})

\* mutant: the loop catches CancelledError and goes on with its next
\* iteration (continue instead of break)
ProcessQueue_swallows_cancel(F) ==
  /\ loop_pc \in {"get", "acquire", "granted"}
  /\ loop_cancel' = FALSE
  /\ LET s0 == IF loop_cancel
               THEN [LoopState EXCEPT !.pc = "get", !.held = 0,
                                      !.sem = IF loop_pc = "granted" THEN @ + 1 ELSE @]
               ELSE LoopState
         s == RunLoop(s0, F)
     IN /\ loop_cancel \/ loop_pc = "granted" \/ (loop_pc = "get" /\ queue # <<>>)
        /\ queue' = s.queue
        /\ sem_value' = s.sem
        /\ jobs' = s.jobs
        /\ running_tests' = s.running
        /\ queued_tests' = s.queued
        /\ loop_pc' = s.pc
        /\ loop_held' = s.held
        /\ admitted' = s.admitted
  /\ UNCHANGED <<now, unfinished_tasks, completed_tests, webhook_url, test_runner, sink, probe, idgen, perf, max_concurrent_tests, response>>

\* The loop task is scheduled: either the pending CancelledError is thrown
\* into it (line 198: break) or it runs until it suspends again, the
\* admission of the jobs in F raising
ProcessQueue(F) ==
  /\ loop_pc \in {"get", "acquire", "granted"}
  /\ IF loop_cancel
     THEN /\ F = {}
          /\ loop_pc' = "done"
          /\ loop_cancel' = FALSE
          /\ loop_held' = 0
          /\ test_runner' = 0
          \* acquire() puts back a permit it was handed but cannot use
          /\ sem_value' = IF loop_pc = "granted" THEN sem_value + 1
                          ELSE sem_value
          /\ UNCHANGED <<jobs, queue, queued_tests, running_tests, admitted>>
     ELSE /\ loop_pc = "granted" \/ (loop_pc = "get" /\ queue # <<>>)
          /\ LET s == RunLoop(LoopState, F)
             IN /\ queue' = s.queue
                /\ sem_value' = s.sem
                /\ jobs' = s.jobs
                /\ running_tests' = s.running
                /\ queued_tests' = s.queued
                /\ loop_pc' = s.pc
                /\ loop_held' = s.held
                /\ admitted' = s.admitted
                /\ test_runner' = IF s.pc = "done" THEN 0 ELSE test_runner
          /\ UNCHANGED loop_cancel
  /\ UNCHANGED <<now, unfinished_tasks, completed_tests, webhook_url, sink, probe, idgen, perf, max_concurrent_tests, response>>

\* task.cancel() on the admission loop (cleanup_queue, shutdown)
CancelLoop ==
  /\ loop_pc \in {"get", "acquire", "granted"}
  /\ ~loop_cancel
  /\ loop_cancel' = TRUE
  /\ UNCHANGED <<now, jobs, queue, unfinished_tasks, queued_tests,
                 running_tests, completed_tests, sem_value, loop_pc,
                 loop_held, admitted, webhook_url, test_runner, sink, probe, idgen, perf, max_concurrent_tests, response>>

\* ------------------------------------------------------- execution units
\* mutant: the entry inserted first is evicted
OldestIndex_first(od, js) == 1

\* index of the entry min() returns: the first one, in dict order, with the
\* smallest completed_at
OldestIndex(od, js) ==
  CHOOSE i \in 1..Len(od) :
    /\ \A x \in 1..Len(od) : js[od[i].job].completed_at <= js[od[x].job].completed_at
    /\ \A x \in 1..(i - 1) : js[od[x].job].completed_at > js[od[i].job].completed_at

\* lines 218-224: record the job, evict when the history is over capacity
RecordCompleted(od, k, j, js) ==
  LET od1 == OrderedSet(od, k, j)
  IN IF Len(od1) > HistoryCapacity
     THEN OrderedRemoveAt(od1, OldestIndex(od1, js))
     ELSE od1

\* mutant: release() never wakes the waiting loop
ReleaseWakes_never(pc, cancelled) == FALSE

\* semaphore.release(): the permit goes to the loop when it waits for one
\* and its wait was not cancelled, to the counter otherwise
ReleaseWakes(pc, cancelled) == pc = "acquire" /\ ~cancelled

\* mutant: the permit of the unit is not given back
Cleanup_keeps_permit(j, st) ==
  LET rid == jobs[j].request_id
      js == [jobs EXCEPT ![j].status = st, ![j].completed_at = now,
                         ![j].task = "done"]
  IN /\ jobs' = js
     /\ running_tests' = DictPop(running_tests, rid)
     /\ completed_tests' = RecordCompleted(completed_tests, rid, j, js)
     /\ loop_pc' = loop_pc /\ sem_value' = sem_value
     /\ unfinished_tasks' = unfinished_tasks - 1
     /\ UNCHANGED <<now, queue, queued_tests, loop_held, loop_cancel,
                    admitted, webhook_url, test_runner, probe, idgen, perf, max_concurrent_tests, response>>

\* _run_test_with_cleanup leaves test_runner with status st (lines 212-226)
Cleanup(j, st) ==
  LET rid == jobs[j].request_id
      js == [jobs EXCEPT ![j].status = st, ![j].completed_at = now,
                         ![j].task = "done"]
  IN /\ jobs' = js
     /\ running_tests' = DictPop(running_tests, rid)
     /\ completed_tests' = RecordCompleted(completed_tests, rid, j, js)
     /\ IF ReleaseWakes(loop_pc, loop_cancel)
        THEN loop_pc' = "granted" /\ sem_value' = sem_value
        ELSE loop_pc' = loop_pc /\ sem_value' = sem_value + 1
     /\ unfinished_tasks' = unfinished_tasks - 1
     /\ UNCHANGED <<now, queue, queued_tests, loop_held, loop_cancel,
                    admitted, webhook_url, test_runner, probe, idgen, perf, max_concurrent_tests, response>>

\* test_runner returns (line 212)
UnitCompleted(j) ==
  /\ j \in JobIds
  /\ jobs[j].task = "created"
  /\ Cleanup(j, COMPLETED)
  /\ UNCHANGED sink

\* mutant: the exception is swallowed and the job reported completed
UnitFailed_as_completed(j) ==
  /\ j \in JobIds
  /\ jobs[j].task = "created"
  /\ Cleanup(j, COMPLETED)
  /\ UNCHANGED sink

\* mutant: a failed job is put back to queued
UnitFailed_requeued(j) ==
  /\ j \in JobIds
  /\ jobs[j].task = "created"
  /\ Cleanup(j, QUEUED)
  /\ UNCHANGED sink

\* test_runner raises (line 214)
UnitFailed(j) ==
  /\ j \in JobIds
  /\ jobs[j].task = "created"
  /\ Cleanup(j, FAILED)
  /\ UNCHANGED sink

\* queued_test.task.cancel(): force-cancel of the execution unit of a running
\* job.  A unit that has not taken its first step (started = FALSE: the
\* loop created the task and the caller of cancel() ran before it) never
\* enters the try block of _run_test_with_cleanup, so nothing of lines
\* 210-226 runs; a unit suspended in test_runner gets CancelledError thrown
\* into it the next time it is scheduled
CancelUnit(j, started) ==
  /\ j \in JobIds
  /\ jobs[j].task = "created"
  /\ jobs' = [jobs EXCEPT ![j].task = IF started THEN "cancelling" ELSE "cancelled"]
  /\ UNCHANGED <<now, queue, unfinished_tasks, queued_tests, running_tests,
                 completed_tests, sem_value, loop_pc, loop_held, loop_cancel,
                 admitted, webhook_url, test_runner, sink, probe, idgen, perf, max_concurrent_tests, response>>

\* CancelledError leaves test_runner: it is no Exception, so line 214 is
\* skipped and the status stays as it was; the finally block runs
UnitCancelled(j) ==
  /\ j \in JobIds
  /\ jobs[j].task = "cancelling"
  /\ Cleanup(j, jobs[j].status)
  /\ UNCHANGED sink

\* -------------------------------------------------- TestOAIAzureRelease
HTTP_SUCCESS_STATUS_CODE == 200

PROGRESS_REPORT_INTERVAL == 10

\* a status code other than 200, and the None of a request that raised
HTTP_ERROR_STATUS_CODE == 500
NoStatusCode == 0

\* max_failure_rate and the failure rates are fractions, compared exactly:
\* the float division of the code is correctly rounded, so equal fractions
\* give equal floats
Rates == {[num |-> n, den |-> MaxDen] : n \in 0..MaxDen}

RateLess(a, b) == a.num * b.den < b.num * a.den

\* how a chat completion request ends: status 200 with a JSON body, status
\* 200 with a body json() rejects, another status with a JSON body that is
\* not null, with the JSON body null, or with a body json() rejects, or an
\* exception of client.post
RequestOutcomes ==
  {"ok", "unparsable", "http_error", "http_error_null", "http_error_text",
   "exception"}

\* the value of result["error"]: None, the parsed body, a text
NoError == "None"

\* _parse_successful_response, _parse_error_response, _create_error_result
AttemptRecord(model, outcome) ==
  [model |-> model,
   status_code |-> IF outcome \in {"ok", "unparsable"} THEN HTTP_SUCCESS_STATUS_CODE
                   ELSE IF outcome = "exception" THEN NoStatusCode
                   ELSE HTTP_ERROR_STATUS_CODE,
   success |-> outcome = "ok",
   response_data |-> outcome = "ok",
   error |-> IF outcome = "ok" THEN NoError
             ELSE IF outcome = "unparsable" THEN "Failed to parse response"
             ELSE IF outcome = "http_error" THEN "response.json()"
             ELSE IF outcome = "http_error_null" THEN NoError
             ELSE IF outcome = "http_error_text" THEN "response.text"
             ELSE "str(exception)"]

\* the model lists of at most MaxModels names; a name is the position of its
\* first occurrence among the distinct names of the list, so that lists which
\* differ only in the spelling of the names are drawn once
ModelLists ==
  UNION {{l \in [1..n -> 1..MaxModels] :
            /\ l[1] = 1
            /\ \A i \in 2..n : \E k \in 1..(i - 1) : l[i] <= l[k] + 1} : n \in 1..MaxModels}

\* the keys of self.results: the distinct names of self.models
ModelNames(pr) == {pr.models[i] : i \in 1..Len(pr.models)}

\* TestOAIAzureRelease.__init__ with the model list l
NewProbe(l, duration, rate) ==
  [pc |-> "new", models |-> l, duration_hours |-> duration,
   max_failure_rate |-> rate, clock |-> 0, start_time |-> NoTime,
   end_time |-> NoTime, deadline |-> NoTime, model_index |-> 0, current |-> 0,
   results |-> [m \in {l[i] : i \in 1..Len(l)} |-> <<>>], client |-> "none",
   created |-> 0, closed |-> 0, progress |-> 0,
   test_passed |-> "none"]

\* the attempts made so far, as (model, position) pairs
Attempts(pr) ==
  {a \in ModelNames(pr) \X (1..(MaxDuration + 1)) : a[2] <= Len(pr.results[a[1]])}

\* mutant: the failures are the results with an error status
calculate_model_statistics_by_status(results) ==
  LET successes == Cardinality({i \in 1..Len(results) : results[i].success})
      failures == Cardinality({i \in 1..Len(results) :
                                 results[i].status_code # HTTP_SUCCESS_STATUS_CODE})
      total == Len(results)
  IN [total_requests |-> total, successes |-> successes, failures |-> failures,
      failure_rate |-> IF total > 0 THEN [num |-> failures, den |-> total]
                       ELSE [num |-> 0, den |-> 1]]

\* _calculate_model_statistics (lines 282-300), the rate as a fraction
calculate_model_statistics(results) ==
  LET successes == Cardinality({i \in 1..Len(results) : results[i].success})
      failures == Len(results) - successes
      total == Len(results)
  IN [total_requests |-> total, successes |-> successes, failures |-> failures,
      failure_rate |-> IF total > 0 THEN [num |-> failures, den |-> total]
                       ELSE [num |-> 0, den |-> 1]]

RECURSIVE SumStatistics(_, _, _)
\* the loop of lines 308-312 over the models of names: the sum of one field
\* of the statistics of each model
SumStatistics(pr, names, field) ==
  IF names = {} THEN 0
  ELSE LET model == CHOOSE m \in names : TRUE
       IN calculate_model_statistics(pr.results[model])[field]
            + SumStatistics(pr, names \ {model}, field)

\* _calculate_overall_statistics
total_requests(pr) == SumStatistics(pr, ModelNames(pr), "total_requests")

total_successes(pr) == SumStatistics(pr, ModelNames(pr), "successes")

total_failures(pr) == SumStatistics(pr, ModelNames(pr), "failures")

overall_failure_rate(pr) ==
  IF total_requests(pr) > 0
  THEN [num |-> total_failures(pr), den |-> total_requests(pr)]
  ELSE [num |-> 0, den |-> 1]

\* mutant: the boundary is accepted
test_passed_at_most(pr) ==
  ~RateLess(pr.max_failure_rate, overall_failure_rate(pr))

\* line 345 of _calculate_results
test_passed(pr) == RateLess(overall_failure_rate(pr), pr.max_failure_rate)

\* mutant: the index does not wrap to the start of the list
get_next_model_to_test_no_wrap(pr) ==
  pr.models[IF pr.model_index < Len(pr.models)
            THEN pr.model_index + 1 ELSE Len(pr.models)]

\* _get_next_model_to_test: self.models[model_index % len(self.models)],
\* positions counted from 1
get_next_model_to_test(pr) == pr.models[(pr.model_index % Len(pr.models)) + 1]

\* run(), lines 127-132
ProbeRun ==
  /\ probe.pc = "new"
  /\ probe' = [probe EXCEPT !.pc = "while",
                            !.start_time = probe.clock,
                            !.deadline = probe.clock + probe.duration_hours,
                            !.model_index = 0]

\* mutant: a client per request
ensure_http_client_exists_per_request(pr) ==
  [pr EXCEPT !.client = "open", !.created = @ + 1]

\* _ensure_http_client_exists: a client is made when self.client is None
ensure_http_client_exists(pr) ==
  IF pr.client = "none"
  THEN [pr EXCEPT !.client = "open", !.created = @ + 1]
  ELSE pr

\* mutant: the client is left open at the end of the run
cleanup_resources_skipped(pr) == pr

\* _cleanup_resources: aclose() of the client, if there is one
cleanup_resources(pr) ==
  IF pr.client = "none"
  THEN pr
  ELSE [pr EXCEPT !.client = "closed", !.closed = @ + 1]

\* the loop test of line 133: another iteration up to the await of
\* client.post (lines 134-137, 165-172), or the end of run() (lines
\* 145-148)
ProbeWhile ==
  /\ probe.pc = "while"
  /\ IF probe.clock < probe.deadline
     THEN probe' = ensure_http_client_exists(
                     [probe EXCEPT !.pc = "post",
                                   !.current = get_next_model_to_test(probe),
                                   !.model_index = @ + 1])
     ELSE probe' = [cleanup_resources([probe EXCEPT !.pc = "done",
                                                    !.end_time = probe.clock,
                                                    !.current = 0])
                      EXCEPT !.test_passed = test_passed(probe)]

\* mutant: an exception of the request leaves run()
ProbeResponse_raises(outcome, dt) ==
  /\ probe.pc = "post"
  /\ IF outcome = "exception"
     THEN probe' = [probe EXCEPT !.pc = "done", !.clock = @ + dt,
                                !.end_time = probe.clock + dt]
     ELSE probe' = [probe EXCEPT
                      !.pc = "sleep",
                      !.clock = @ + dt,
                      !.results[probe.current] =
                         Append(@, AttemptRecord(probe.current, outcome))]

\* the request ends after dt ticks: _make_request returns its result, which
\* is appended (line 138), progress is reported (lines 140-141), and run()
\* sleeps (line 143)
ProbeResponse(outcome, dt) ==
  /\ probe.pc = "post"
  /\ probe' = [probe EXCEPT
                 !.pc = "sleep",
                 !.clock = @ + dt,
                 !.results[probe.current] =
                    Append(@, AttemptRecord(probe.current, outcome)),
                 !.progress =
                    IF (Len(probe.results[probe.current]) + 1) % PROGRESS_REPORT_INTERVAL = 0
                    THEN @ + 1 ELSE @]

\* asyncio.sleep(request_interval_seconds) is over: one tick
ProbeWake ==
  /\ probe.pc = "sleep"
  /\ probe' = [probe EXCEPT !.pc = "while", !.clock = @ + 1]

\* the queue of the process is idle while the suite is observed
QueueIdle ==
  UNCHANGED <<max_concurrent_tests, now, jobs, queue, unfinished_tasks,
              queued_tests, running_tests, completed_tests, sem_value, loop_pc,
              loop_held, loop_cancel, admitted, webhook_url, test_runner, sink, response>>

InitProbe ==
  /\ now = 0
  /\ jobs = <<>>
  /\ queue = <<>>
  /\ unfinished_tasks = 0
  /\ queued_tests = EmptyDict
  /\ running_tests = EmptyDict
  /\ completed_tests = <<>>
  /\ max_concurrent_tests = 1
  /\ sem_value = max_concurrent_tests
  /\ loop_pc = "none"
  /\ loop_held = 0
  /\ loop_cancel = FALSE
  /\ admitted = <<>>
  /\ sink = <<>>
  /\ webhook_url = TRUE
  /\ test_runner = 0
  /\ response = [code |-> 0, status |-> "none", info |-> NoInfo]
  /\ probe \in {NewProbe(l, d, r) : l \in ModelLists, d \in 0..MaxDuration, r \in Rates}
  /\ idgen = NoRequest
  /\ perf = NoSample

NextProbe ==
  \/ ProbeRun /\ QueueIdle /\ UNCHANGED <<idgen, perf>>
  \/ ProbeWhile /\ QueueIdle /\ UNCHANGED <<idgen, perf>>
  \/ \E o \in RequestOutcomes, dt \in 0..1 : ProbeResponse(o, dt) /\ QueueIdle /\ UNCHANGED <<idgen, perf>>
  \/ ProbeWake /\ QueueIdle /\ UNCHANGED <<idgen, perf>>

SpecProbe == InitProbe /\ [][NextProbe]_vars

\* A run long enough for the progress reports: every request succeeds at
\* once, and the deadline is LongRun sleeps away
LongRun == 2 * PROGRESS_REPORT_INTERVAL

InitProgress ==
  /\ now = 0
  /\ jobs = <<>>
  /\ queue = <<>>
  /\ unfinished_tasks = 0
  /\ queued_tests = EmptyDict
  /\ running_tests = EmptyDict
  /\ completed_tests = <<>>
  /\ max_concurrent_tests = 1
  /\ sem_value = max_concurrent_tests
  /\ loop_pc = "none"
  /\ loop_held = 0
  /\ loop_cancel = FALSE
  /\ admitted = <<>>
  /\ sink = <<>>
  /\ webhook_url = TRUE
  /\ test_runner = 0
  /\ response = [code |-> 0, status |-> "none", info |-> NoInfo]
  /\ probe \in {NewProbe(l, LongRun, r) : l \in ModelLists, r \in Rates}
  /\ idgen = NoRequest
  /\ perf = NoSample

NextProgress ==
  \/ ProbeRun /\ QueueIdle /\ UNCHANGED <<idgen, perf>>
  \/ ProbeWhile /\ QueueIdle /\ UNCHANGED <<idgen, perf>>
  \/ ProbeResponse("ok", 0) /\ QueueIdle /\ UNCHANGED <<idgen, perf>>
  \/ ProbeWake /\ QueueIdle /\ UNCHANGED <<idgen, perf>>

SpecProgress == InitProgress /\ [][NextProgress]_vars

\* the task of the run is cancelled while run() waits for client.post or for
\* asyncio.sleep: CancelledError is raised at the await, _make_request
\* catches Exception only (line 180) and run() has no handler and no
\* finally, so run() is left at once
ProbeCancelled ==
  /\ probe.pc \in {"post", "sleep"}
  /\ probe' = [probe EXCEPT !.pc = "cancelled", !.current = 0]

NextProbeCancel ==
  \/ ProbeRun /\ QueueIdle /\ UNCHANGED <<idgen, perf>>
  \/ ProbeWhile /\ QueueIdle /\ UNCHANGED <<idgen, perf>>
  \/ \E o \in RequestOutcomes, dt \in 0..1 : ProbeResponse(o, dt) /\ QueueIdle /\ UNCHANGED <<idgen, perf>>
  \/ ProbeWake /\ QueueIdle /\ UNCHANGED <<idgen, perf>>
  \/ ProbeCancelled /\ QueueIdle /\ UNCHANGED <<idgen, perf>>

SpecProbeCancel == InitProbe /\ [][NextProbeCancel]_vars

\* ------------------------------------------------ _generate_request_id
\* None of an Optional field of RunTestRequest
Null == 0

\* the strings a field of a request is drawn from, in their sort order
IdStrings == 1..2

\* RunTestRequest: three strings, a list of strings, three optional floats
RunTestRequests ==
  [test_suite : IdStrings,
   deployment_url : IdStrings,
   api_key : IdStrings,
   models : UNION {[1..n -> IdStrings] : n \in 0..MaxIdModels},
   duration_hours : {Null, 1, 2},
   max_failure_rate : {Null, 1},
   request_interval_seconds : {Null, 1}]

RECURSIVE insort(_, _)
\* x put in its place in the ascending list s
insort(x, s) ==
  IF s = <<>> THEN <<x>>
  ELSE IF x <= Head(s) THEN <<x>> \o s
  ELSE <<Head(s)>> \o insort(x, Tail(s))

RECURSIVE sorted(_)
\* sorted(request.models): the same names, ascending
sorted(s) == IF s = <<>> THEN <<>> ELSE insort(Head(s), sorted(Tail(s)))

\* mutant: the api key is left out of the hashed parameters
params_without_api_key(request) ==
  [test_suite |-> request.test_suite,
   deployment_url |-> request.deployment_url,
   api_key |-> Null,
   models |-> sorted(request.models),
   duration_hours |-> request.duration_hours,
   max_failure_rate |-> request.max_failure_rate,
   request_interval_seconds |-> request.request_interval_seconds]

\* the dict params of lines 167-175
params(request) ==
  [test_suite |-> request.test_suite,
   deployment_url |-> request.deployment_url,
   api_key |-> request.api_key,
   models |-> sorted(request.models),
   duration_hours |-> request.duration_hours,
   max_failure_rate |-> request.max_failure_rate,
   request_interval_seconds |-> request.request_interval_seconds]

\* json.dumps(params, sort_keys=True): the values in the order of their
\* keys, the list between brackets (Null - 1 and Null - 2 stand for them)
json_dumps(d) ==
  <<d.api_key, d.deployment_url, d.duration_hours, d.max_failure_rate,
    Null - 1>> \o d.models \o <<Null - 2, d.request_interval_seconds, d.test_suite>>

RECURSIVE digest(_, _)
\* a digest of the text folded character by character into DigestBits bits
digest(text, h) ==
  IF text = <<>> THEN h
  ELSE digest(Tail(text), (h * 31 + Head(text) + 3) % (2 ^ DigestBits))

\* hashlib.sha256(text.encode()).hexdigest()[:16]: a fixed function of the
\* text into the values of the prefix that is kept
sha256_16(text) == digest(text, 7)

\* mutant: the models are hashed in the order given
generate_request_id_unsorted(request) ==
  sha256_16(json_dumps([params(request) EXCEPT !.models = request.models]))

\* _generate_request_id
generate_request_id(request) == sha256_16(json_dumps(params(request)))

InitId ==
  /\ now = 0
  /\ jobs = <<>>
  /\ queue = <<>>
  /\ unfinished_tasks = 0
  /\ queued_tests = EmptyDict
  /\ running_tests = EmptyDict
  /\ completed_tests = <<>>
  /\ max_concurrent_tests = 1
  /\ sem_value = max_concurrent_tests
  /\ loop_pc = "none"
  /\ loop_held = 0
  /\ loop_cancel = FALSE
  /\ admitted = <<>>
  /\ sink = <<>>
  /\ webhook_url = TRUE
  /\ test_runner = 0
  /\ response = [code |-> 0, status |-> "none", info |-> NoInfo]
  /\ probe = NoProbe
  /\ perf = NoSample
  /\ idgen \in {[pc |-> "new", request |-> r, params_json |-> <<>>,
                   request_id |-> Null] : r \in RunTestRequests}

\* one call of _generate_request_id(request)
GenerateRequestId ==
  /\ idgen.pc = "new"
  /\ idgen' = [idgen EXCEPT !.pc = "done",
                            !.params_json = json_dumps(params(idgen.request)),
                            !.request_id = generate_request_id(idgen.request)]
  /\ QueueIdle
  /\ UNCHANGED <<probe, perf>>

NextId == GenerateRequestId

SpecId == InitId /\ [][NextId]_vars

\* --------------------------------------------------------- _percentile
\* the ascending lists _latency_stats passes on (sorted(durations), line
\* 218), the empty one included
SortedDurations ==
  UNION {{d \in [1..n -> 1..MaxLatency] : \A i \in 1..(n - 1) : d[i] <= d[i + 1]}
           : n \in 0..MaxSamples}

\* the values of p, as exact fractions: the ones the statistics use and a
\* grid over [0, 1]
Percentiles ==
  {[num |-> 50, den |-> 100], [num |-> 95, den |-> 100], [num |-> 99, den |-> 100]}
    \cup {q \in [num : 0..MaxPDen, den : 1..MaxPDen] : q.num <= q.den}

\* two fractions are the same number
FracEq(x, y) == x.num * y.den = y.num * x.den

\* x < y for fractions with positive denominators
FracLess(x, y) == x.num * y.den < y.num * x.den

\* mutant: the order statistic below k, without the interpolation
percentile_no_interpolation(sorted_data, p) ==
  IF sorted_data = <<>> THEN [num |-> 0, den |-> 1]
  ELSE LET n == Len(sorted_data)
           f == ((n - 1) * p.num) \div p.den
       IN IF f + 1 >= n
          THEN [num |-> sorted_data[n], den |-> 1]
          ELSE [num |-> sorted_data[f + 1], den |-> 1]

\* _percentile(sorted_data, p), positions counted from 1: k is
\* (n - 1) * p.num / p.den, f its integer part, k - f the remainder over
\* p.den
percentile(sorted_data, p) ==
  IF sorted_data = <<>> THEN [num |-> 0, den |-> 1]
  ELSE LET n == Len(sorted_data)
           knum == (n - 1) * p.num
           f == knum \div p.den
           c == f + 1
       IN IF c >= n
          THEN [num |-> sorted_data[n], den |-> 1]
          ELSE [num |-> sorted_data[f + 1] * p.den
                          + (knum - f * p.den) * (sorted_data[c + 1] - sorted_data[f + 1]),
                den |-> p.den]

InitPerf ==
  /\ now = 0
  /\ jobs = <<>>
  /\ queue = <<>>
  /\ unfinished_tasks = 0
  /\ queued_tests = EmptyDict
  /\ running_tests = EmptyDict
  /\ completed_tests = <<>>
  /\ max_concurrent_tests = 1
  /\ sem_value = max_concurrent_tests
  /\ loop_pc = "none"
  /\ loop_held = 0
  /\ loop_cancel = FALSE
  /\ admitted = <<>>
  /\ sink = <<>>
  /\ webhook_url = TRUE
  /\ test_runner = 0
  /\ response = [code |-> 0, status |-> "none", info |-> NoInfo]
  /\ probe = NoProbe
  /\ idgen = NoRequest
  /\ perf \in {[pc |-> "new", sorted_data |-> d, p |-> q,
                  result |-> [num |-> 0, den |-> 1]]
                   : d \in SortedDurations, q \in Percentiles}

\* one call of _percentile(sorted_data, p)
Percentile ==
  /\ perf.pc = "new"
  /\ perf' = [perf EXCEPT !.pc = "done",
                          !.result = percentile(perf.sorted_data, perf.p)]
  /\ QueueIdle
  /\ UNCHANGED <<probe, idgen>>

NextPerf == Percentile

SpecPerf == InitPerf /\ [][NextPerf]_vars

\* ------------------------------------------------ TestAccessGroupPerf.run
\* how a request of a scenario ends: status 200, another status, or an
\* exception of client.post
ScenarioOutcomes == {"ok", "http_error", "exception"}

\* _make_request (lines 166-207): the result of one request; the measured
\* duration is a value whose size plays no part in run()
ScenarioRequestResult(outcome) ==
  [success |-> outcome = "ok",
   status_code |-> IF outcome = "ok" THEN HTTP_SUCCESS_STATUS_CODE
                   ELSE IF outcome = "exception" THEN NoStatusCode
                   ELSE HTTP_ERROR_STATUS_CODE,
   duration_seconds |-> 1,
   error |-> IF outcome = "ok" THEN NoError
             ELSE IF outcome = "http_error" THEN "response.json()"
             ELSE "str(e)"]

\* ScenarioResult(scenario=scenario), lines 71-79
ScenarioResult(scenario) ==
  [scenario |-> scenario, durations |-> <<>>, successes |-> 0, failures |-> 0,
   errors |-> <<>>]

\* mutant: a duration is recorded for the successful requests only
record_request_durations_of_successes(result, req_result) ==
  IF req_result.success
  THEN [result EXCEPT !.durations = Append(@, req_result.duration_seconds),
                      !.successes = @ + 1]
  ELSE [result EXCEPT !.failures = @ + 1,
                      !.errors = IF req_result.error # NoError
                                 THEN Append(@, req_result.error) ELSE @]

\* lines 146-152 of _run_scenario: the duration and the outcome of a request
\* go into the result of the scenario
record_request(result, req_result) ==
  IF req_result.success
  THEN [result EXCEPT !.durations = Append(@, req_result.duration_seconds),
                      !.successes = @ + 1]
  ELSE [result EXCEPT !.durations = Append(@, req_result.duration_seconds),
                      !.failures = @ + 1,
                      !.errors = IF req_result.error # NoError
                                 THEN Append(@, req_result.error) ELSE @]

\* the scenario lists of at most MaxScenarios scenarios, a scenario being its
\* name; a name is the position of its first occurrence among the distinct
\* names of the list
ScenarioLists ==
  UNION {{l \in [1..n -> 1..MaxScenarios] :
            \A i \in 1..n : \/ l[i] = 1
                            \/ \E k \in 1..(i - 1) : l[i] <= l[k] + 1}
           : n \in 0..MaxScenarios}

\* TestAccessGroupPerf.__init__ (lines 97-112); posts lists the scenario
\* positions of the requests sent so far, finished the results _run_scenario
\* has returned so far
NewPerfRun(l, n) ==
  [pc |-> "new", scenarios |-> l, requests_per_scenario |-> n, position |-> 0,
   i |-> 0, result |-> ScenarioResult(0), scenario_results |-> EmptyDict,
   finished |-> <<>>, posts |-> <<>>]

\* run(), lines 118-120
ScenarioRun ==
  /\ perf.pc = "new"
  /\ perf' = [perf EXCEPT !.pc = "for", !.position = 1]

\* the for of line 122: the next scenario is started (lines 133-141), or
\* run() ends (lines 126-127)
ScenarioFor ==
  /\ perf.pc = "for"
  /\ IF perf.position <= Len(perf.scenarios)
     THEN perf' = [perf EXCEPT !.pc = "range", !.i = 1,
                               !.result = ScenarioResult(perf.scenarios[perf.position])]
     ELSE perf' = [perf EXCEPT !.pc = "done"]

\* the range() of line 143: another request is sent (lines 144, 185), or
\* _run_scenario returns its result, which run() stores under the name of
\* the scenario (lines 157-158, 124)
ScenarioRange ==
  /\ perf.pc = "range"
  /\ IF perf.i <= perf.requests_per_scenario
     THEN perf' = [perf EXCEPT !.pc = "post",
                               !.posts = Append(@, perf.position)]
     ELSE perf' = [perf EXCEPT
                     !.pc = "for",
                     !.scenario_results =
                        [k \in DOMAIN perf.scenario_results \cup {perf.result.scenario} |->
                           IF k = perf.result.scenario THEN perf.result
                           ELSE perf.scenario_results[k]],
                     !.finished = Append(@, perf.result),
                     !.position = @ + 1]

\* the request ends: _make_request returns its result, which is recorded
\* (lines 144-152), and _run_scenario sleeps (line 155)
ScenarioResponse(outcome) ==
  /\ perf.pc = "post"
  /\ perf' = [perf EXCEPT
                !.pc = "sleep",
                !.result = record_request(@, ScenarioRequestResult(outcome))]

\* asyncio.sleep(request_interval_seconds) is over
ScenarioWake ==
  /\ perf.pc = "sleep"
  /\ perf' = [perf EXCEPT !.pc = "range", !.i = @ + 1]

InitScenario ==
  /\ now = 0
  /\ jobs = <<>>
  /\ queue = <<>>
  /\ unfinished_tasks = 0
  /\ queued_tests = EmptyDict
  /\ running_tests = EmptyDict
  /\ completed_tests = <<>>
  /\ max_concurrent_tests = 1
  /\ sem_value = max_concurrent_tests
  /\ loop_pc = "none"
  /\ loop_held = 0
  /\ loop_cancel = FALSE
  /\ admitted = <<>>
  /\ sink = <<>>
  /\ webhook_url = TRUE
  /\ test_runner = 0
  /\ response = [code |-> 0, status |-> "none", info |-> NoInfo]
  /\ probe = NoProbe
  /\ idgen = NoRequest
  /\ perf \in {NewPerfRun(l, n) : l \in ScenarioLists, n \in 0..MaxRequests}

NextScenario ==
  \/ ScenarioRun /\ QueueIdle /\ UNCHANGED <<probe, idgen>>
  \/ ScenarioFor /\ QueueIdle /\ UNCHANGED <<probe, idgen>>
  \/ ScenarioRange /\ QueueIdle /\ UNCHANGED <<probe, idgen>>
  \/ \E o \in ScenarioOutcomes : ScenarioResponse(o) /\ QueueIdle /\ UNCHANGED <<probe, idgen>>
  \/ ScenarioWake /\ QueueIdle /\ UNCHANGED <<probe, idgen>>

SpecScenario == InitScenario /\ [][NextScenario]_vars

\* ------------------------------------------------- run_test_and_notify
\* how the suite of a job ends: run() returns results with test_passed set
\* or not, or the construction or run() raises
Outcomes == {"passed", "not_passed", "raised"}

ResultNotification(j, passed) ==
  [call |-> "send_test_result_notification", job |-> j, test_passed |-> passed]

FailureMessage(j) ==
  [call |-> "send_message", job |-> j, test_passed |-> FALSE]

\* mutant: a run that did not pass is reported twice, as a result and as a
\* failure
run_test_and_notify_twice(snk, j, outcome) ==
  IF outcome = "raised"
  THEN Append(snk, FailureMessage(j))
  ELSE IF outcome = "passed"
  THEN Append(snk, ResultNotification(j, TRUE))
  ELSE Append(Append(snk, ResultNotification(j, FALSE)), FailureMessage(j))

\* the calls run_test_and_notify makes on the sink (lines 99-133); the
\* except branch ends the runner normally
run_test_and_notify(snk, j, outcome) ==
  IF outcome = "raised"
  THEN Append(snk, FailureMessage(j))
  ELSE Append(snk, ResultNotification(j, outcome = "passed"))

\* the suite of a running job ends: run_test_and_notify notifies and
\* returns, so _run_test_with_cleanup takes the path of line 212
SuiteEnded(j, outcome) ==
  /\ j \in JobIds
  /\ jobs[j].task = "created"
  /\ sink' = run_test_and_notify(sink, j, outcome)
  /\ Cleanup(j, COMPLETED)

\* ------------------------------------------------------------- run_test
Requests == [request_id : FPs, suite_known : BOOLEAN]

\* mutant: enqueue admits by itself and waits for a free permit
Enqueue_waits_for_permit(rid) ==
  LET j == Len(jobs) + 1
  IN /\ sem_value > 0
     /\ jobs' = Append(jobs, QueuedTest(rid))
     /\ queued_tests' = DictSet(queued_tests, rid, j)
     /\ queue' = Append(queue, j)
     /\ unfinished_tasks' = unfinished_tasks + 1
     /\ IF loop_pc \in {"none", "done"}
        THEN loop_pc' = "get" /\ loop_held' = 0 /\ test_runner' = j
        ELSE UNCHANGED <<loop_pc, loop_held, test_runner>>

\* mutant: every enqueue starts an admission loop
Enqueue_always_starts_loop(rid) ==
  LET j == Len(jobs) + 1
  IN /\ jobs' = Append(jobs, QueuedTest(rid))
     /\ queued_tests' = DictSet(queued_tests, rid, j)
     /\ queue' = Append(queue, j)
     /\ unfinished_tasks' = unfinished_tasks + 1
     /\ loop_pc' = "get" /\ loop_held' = 0 /\ test_runner' = j

\* mutant: the job is not recorded in queued_tests
Enqueue_not_indexed(rid) ==
  LET j == Len(jobs) + 1
  IN /\ jobs' = Append(jobs, QueuedTest(rid))
     /\ queued_tests' = queued_tests
     /\ queue' = Append(queue, j)
     /\ unfinished_tasks' = unfinished_tasks + 1
     /\ IF loop_pc \in {"none", "done"}
        THEN loop_pc' = "get" /\ loop_held' = 0 /\ test_runner' = j
        ELSE UNCHANGED <<loop_pc, loop_held, test_runner>>

\* TestQueue.enqueue (lines 65-74) for a job with fingerprint rid
Enqueue(rid) ==
  LET j == Len(jobs) + 1
  IN /\ jobs' = Append(jobs, QueuedTest(rid))
     /\ queued_tests' = DictSet(queued_tests, rid, j)
     /\ queue' = Append(queue, j)
     /\ unfinished_tasks' = unfinished_tasks + 1
     /\ IF loop_pc \in {"none", "done"}
        THEN loop_pc' = "get" /\ loop_held' = 0 /\ test_runner' = j
        ELSE UNCHANGED <<loop_pc, loop_held, test_runner>>

Rejected(code, info) ==
  /\ response' = [code |-> code, status |-> "none", info |-> info]
  /\ UNCHANGED <<now, jobs, queue, unfinished_tasks, queued_tests,
                 running_tests, completed_tests, sem_value, loop_pc,
                 loop_held, loop_cancel, admitted, webhook_url, test_runner, sink, probe, idgen, perf, max_concurrent_tests>>

\* mutant: the duplicate check is missing
Verdict_no_duplicate_check(r) ==
  IF ~r.suite_known THEN 400
  ELSE IF ~webhook_url THEN 400
  ELSE 200

\* mutant: the webhook is checked before the duplicate
Verdict_webhook_first(r) ==
  IF ~r.suite_known THEN 400
  ELSE IF ~webhook_url THEN 400
  ELSE IF is_duplicate(r.request_id) THEN 409
  ELSE 200

\* the checks of run_test, in the order of lines 54, 65 and 75
Verdict(r) ==
  IF ~r.suite_known THEN 400
  ELSE IF is_duplicate(r.request_id) THEN 409
  ELSE IF ~webhook_url THEN 400
  ELSE 200

\* POST /run-test (lines 54-155); the model stops taking calls once MaxJobs
\* jobs have been accepted
RunTest(r) ==
  /\ NumSubmitted < MaxJobs
  /\ IF Verdict(r) = 400 THEN Rejected(400, NoInfo)
     ELSE IF Verdict(r) = 409
     THEN Rejected(409, get_duplicate_info(r.request_id))
     ELSE /\ Enqueue(r.request_id)
          /\ response' =
               [code |-> 200,
                status |-> IF jobs'[Len(jobs')].status = RUNNING
                           THEN "started" ELSE "queued",
                info |-> [NoInfo EXCEPT !.request_id = r.request_id]]
          /\ UNCHANGED <<now, running_tests, completed_tests, sem_value,
                         loop_cancel, admitted, webhook_url, sink, probe, idgen, perf, max_concurrent_tests>>

\* datetime.now() advances
Tick ==
  /\ now < MaxTime
  /\ now' = now + 1
  /\ UNCHANGED <<jobs, queue, unfinished_tasks, queued_tests, running_tests,
                 completed_tests, sem_value, loop_pc, loop_held, loop_cancel,
                 admitted, webhook_url, test_runner, sink, probe, idgen, perf, max_concurrent_tests, response>>

\* ------------------------------------------------------- specifications
\* Fingerprints matter only by being equal or not: a request carries a
\* fingerprint already submitted or the least one not yet submitted
Submitted == {jobs[j].request_id : j \in JobIds}

NextFingerprint(r) == \A fp \in FPs : fp < r.request_id => fp \in Submitted

Next ==
  \/ \E r \in Requests : NextFingerprint(r) /\ RunTest(r)
  \/ \E F \in SUBSET InFlight : ProcessQueue(F)
  \/ CancelLoop
  \/ \E j \in JobIds : UnitCompleted(j)
  \/ \E j \in JobIds : UnitFailed(j)
  \/ Tick

Spec == Init /\ [][Next]_vars

\* Normal operation within one reading of the clock: no admission raises,
\* nothing is cancelled; the event loop runs every ready task and every
\* test_runner terminates
NextLive ==
  \/ \E r \in Requests : RunTest(r)
  \/ ProcessQueue({})
  \/ \E j \in JobIds : UnitCompleted(j)
  \/ \E j \in JobIds : UnitFailed(j)

LiveSpec ==
  /\ Init
  /\ [][NextLive]_vars
  /\ WF_vars(ProcessQueue({}))
  /\ \A j \in 1..MaxJobs : WF_vars(UnitCompleted(j) \/ UnitFailed(j))

\* A queue whose completed-history is full: HistoryCapacity jobs with other
\* fingerprints have completed, and those before position oldest have run
\* and completed a second time, so that the oldest entry is at that position
HistKey(i) == MaxFP + i

HistPositions == {1, 2, HistoryCapacity}

HistJob(i, oldest) ==
  [request_id |-> HistKey(i), status |-> IF i % 2 = 0 THEN COMPLETED ELSE FAILED,
   queued_at |-> -2 * HistoryCapacity, started_at |-> -2 * HistoryCapacity,
   completed_at |-> ((i - oldest) % HistoryCapacity) - HistoryCapacity,
   task |-> "done"]

InitHist ==
  /\ now = 0
  /\ \E oldest \in HistPositions :
       jobs = [i \in 1..HistoryCapacity |-> HistJob(i, oldest)]
  /\ queue = <<>>
  /\ unfinished_tasks = 0
  /\ queued_tests = EmptyDict
  /\ running_tests = EmptyDict
  /\ completed_tests = [i \in 1..HistoryCapacity |-> [key |-> HistKey(i), job |-> i]]
  /\ max_concurrent_tests \in 1..MaxCeiling
  /\ sem_value = max_concurrent_tests
  /\ loop_pc = "get"
  /\ loop_held = 0
  /\ loop_cancel = FALSE
  /\ admitted = <<>>
  /\ sink = <<>>
  /\ probe = NoProbe
  /\ idgen = NoRequest
  /\ perf = NoSample
  /\ webhook_url = TRUE
  /\ test_runner = 1
  /\ response = [code |-> 0, status |-> "none", info |-> NoInfo]

\* Normal operation within one reading of the clock: the jobs that complete
\* now are newer than every entry of the history
NextHist ==
  \/ \E r \in Requests : r.suite_known /\ RunTest(r)
  \/ ProcessQueue({})
  \/ \E j \in JobIds : UnitCompleted(j)
  \/ \E j \in JobIds : UnitFailed(j)

SpecHist == InitHist /\ [][NextHist]_vars

\* A queue working at its ceiling: max_concurrent_tests jobs with other
\* fingerprints were enqueued and admitted, and their runners have not ended
BusyKey(i) == MaxFP + i

BusyJob(i) ==
  [request_id |-> BusyKey(i), status |-> RUNNING, queued_at |-> -1,
   started_at |-> -1, completed_at |-> NoTime, task |-> "created"]

InitBusy ==
  /\ now = 0
  /\ max_concurrent_tests \in 1..MaxCeiling
  /\ jobs = [i \in 1..max_concurrent_tests |-> BusyJob(i)]
  /\ queue = <<>>
  /\ unfinished_tasks = max_concurrent_tests
  /\ queued_tests = EmptyDict
  /\ running_tests = [k \in {BusyKey(i) : i \in 1..max_concurrent_tests} |-> k - MaxFP]
  /\ completed_tests = <<>>
  /\ sem_value = 0
  /\ loop_pc = "get"
  /\ loop_held = 0
  /\ loop_cancel = FALSE
  /\ admitted = [i \in 1..max_concurrent_tests |-> i]
  /\ sink = <<>>
  /\ probe = NoProbe
  /\ idgen = NoRequest
  /\ perf = NoSample
  /\ webhook_url \in BOOLEAN
  /\ test_runner = 1
  /\ response = [code |-> 0, status |-> "none", info |-> NoInfo]

\* within one reading of the clock
NextBusy ==
  \/ \E r \in Requests : RunTest(r)
  \/ ProcessQueue({})
  \/ \E j \in JobIds : UnitCompleted(j)
  \/ \E j \in JobIds : UnitFailed(j)

SpecBusy == InitBusy /\ [][NextBusy]_vars

\* A queue whose execution units can be force-cancelled; no admission
\* raises and the loop is not cancelled
NextCancel ==
  \/ \E r \in Requests : r.suite_known /\ RunTest(r)
  \/ ProcessQueue({})
  \/ \E j \in JobIds : UnitCompleted(j)
  \/ \E j \in JobIds : UnitFailed(j)
  \/ \E j \in JobIds, started \in BOOLEAN : CancelUnit(j, started)
  \/ \E j \in JobIds : UnitCancelled(j)

SpecCancel == Init /\ [][NextCancel]_vars

\* The server: every job is submitted through run_test and its runner is
\* run_test_and_notify
NextServer ==
  \/ \E r \in Requests : RunTest(r)
  \/ ProcessQueue({})
  \/ \E j \in JobIds, o \in Outcomes : SuiteEnded(j, o)
  \/ Tick

SpecServer == Init /\ [][NextServer]_vars

\* A queue that receives malformed objects next to the submissions of
\* run_test; nothing cancels the loop
NumMalformed == Cardinality({j \in JobIds : Malformed(jobs[j])})

\* queue.put_nowait(obj) on the public self.queue, past enqueue: the object
\* is in no index, and the call starts no loop
PutMalformed ==
  /\ NumMalformed < MaxBad
  /\ jobs' = Append(jobs, QueuedTest(BadId))
  /\ queue' = Append(queue, Len(jobs) + 1)
  /\ unfinished_tasks' = unfinished_tasks + 1
  /\ UNCHANGED <<now, queued_tests, running_tests, completed_tests, sem_value,
                 loop_pc, loop_held, loop_cancel, admitted, webhook_url, test_runner, sink, probe, idgen, perf,
                 max_concurrent_tests, response>>

NextBad ==
  \/ \E r \in Requests : r.suite_known /\ RunTest(r)
  \/ PutMalformed
  \/ \E F \in SUBSET InFlight : ProcessQueue(F)
  \/ \E j \in JobIds : UnitCompleted(j)
  \/ \E j \in JobIds : UnitFailed(j)

SpecBad == Init /\ [][NextBad]_vars

\* ------------------------------------------------------------ vocabulary
Active(j) == jobs[j].status \in {QUEUED, RUNNING}

Terminal(j) == jobs[j].status \in {COMPLETED, FAILED}

\* the jobs whose execution unit is alive
RunningUnits == {j \in JobIds : jobs[j].task = "created"}

QueueItems == {queue[i] : i \in 1..Len(queue)}

\* ------------------------------------------------------------------ C1
\* C1: the number of jobs whose test_runner is executing, and the size of
\* running_tests, never exceed max_concurrent_tests
C1_ConcurrencyCeiling ==
  /\ Cardinality(RunningUnits) <= max_concurrent_tests
  /\ Cardinality(DOMAIN running_tests) <= max_concurrent_tests

\* the ceiling is reached while a further job waits for a permit
C1_Witness ==
  /\ Cardinality(RunningUnits) = max_concurrent_tests
  /\ loop_pc = "acquire"
  /\ loop_held # 0

\* ------------------------------------------------------------------ C2
\* C2: with every submission going through run_test, no two jobs with the
\* same request_id are both Queued or Running
C2_OneActivePerFingerprint ==
  \A j1, j2 \in JobIds :
    (j1 # j2 /\ jobs[j1].request_id = jobs[j2].request_id)
      => ~(Active(j1) /\ Active(j2))

\* a fingerprint was submitted again after its first job had ended
C2_Witness ==
  \E j1, j2 \in JobIds :
    /\ j1 < j2
    /\ jobs[j1].request_id = jobs[j2].request_id
    /\ Terminal(j1)
    /\ Active(j2)

C4_DuplicateRejected ==
  [][\A r \in Requests :
       (/\ r.suite_known
        /\ \E j \in JobIds : jobs[j].request_id = r.request_id /\ Active(j)
        /\ RunTest(r))
       => /\ response'.code = 409
          /\ \E j \in JobIds :
               /\ jobs[j].request_id = r.request_id
               /\ Active(j)
               /\ response'.info.request_id = jobs[j].request_id
               /\ response'.info.status = jobs[j].status
               /\ response'.info.at = IF jobs[j].status = RUNNING
                                      THEN jobs[j].started_at
                                      ELSE jobs[j].queued_at
          /\ UNCHANGED <<queue, queued_tests, running_tests, completed_tests,
                         jobs>>]_vars

\* a submission was refused against a running job
C4_Witness ==
  /\ response.code = 409
  /\ response.info.status = RUNNING
  /\ response.info.field = "started_at"
  /\ response.info.at # NoTime

\* ------------------------------------------------------------------ C5
\* C5: jobs become Running in the order of their enqueue: the admission log
\* is increasing in enqueue order, and no job enqueued before an admitted
\* one is still in the FIFO queue
C5_FifoAdmission ==
  /\ \A a, b \in 1..Len(admitted) : a < b => admitted[a] < admitted[b]
  /\ \A a \in 1..Len(admitted) : \A j \in QueueItems : admitted[a] < j

\* every job was admitted, the last of them after it had waited in the
\* FIFO queue behind an earlier one
C5_Witness ==
  /\ Len(admitted) = MaxJobs
  /\ jobs[admitted[MaxJobs]].task = "created"
  /\ jobs[admitted[MaxJobs]].queued_at < jobs[admitted[MaxJobs]].started_at
  /\ jobs[admitted[1]].started_at <= jobs[admitted[MaxJobs]].queued_at

\* ------------------------------------------------------------------ C6
\* C6: when the test_runner of a running job raises, the job is marked
\* Failed with completed_at set, leaves running_tests, enters
\* completed_tests, and its permit is released: handed to the loop when the
\* loop waits for one with a job in hand, returned to the counter otherwise
C6_RunnerFailure ==
  [][\A j \in JobIds :
       UnitFailed(j)
       => /\ jobs'[j].status = FAILED
          /\ jobs'[j].completed_at = now
          /\ jobs'[j].completed_at # NoTime
          /\ jobs[j].request_id \notin DOMAIN running_tests'
          /\ \E i \in 1..Len(completed_tests') :
               completed_tests'[i] = [key |-> jobs[j].request_id, job |-> j]
          /\ IF loop_pc = "acquire" /\ ~loop_cancel
             THEN loop_pc' = "granted" /\ loop_held' = loop_held
             ELSE sem_value' = sem_value + 1]_vars

\* a job failed in its runner, and a job that was enqueued before that and
\* admitted after it is running
C6_Witness ==
  \E a, b \in 1..Len(admitted) :
    /\ a < b
    /\ jobs[admitted[a]].status = FAILED
    /\ jobs[admitted[a]].task = "done"
    /\ jobs[admitted[b]].task = "created"
    /\ jobs[admitted[b]].queued_at < jobs[admitted[a]].completed_at
    /\ jobs[admitted[b]].started_at >= jobs[admitted[a]].completed_at

\* ------------------------------------------------------------------ C7
Recorded(j) ==
  /\ j \in JobIds
  /\ Terminal(j)
  /\ \E i \in 1..Len(completed_tests) :
       /\ completed_tests[i].key = jobs[j].request_id
       /\ completed_tests[i].job >= j

Quiescent ==
  /\ queue = <<>>
  /\ DOMAIN queued_tests = {}
  /\ DOMAIN running_tests = {}

\* C7: when every test_runner terminates and the loop is not cancelled,
\* every enqueued job eventually is in completed-history in a terminal
\* state (under its own entry or a later run's of the same fingerprint), and
\* once submissions have stopped the FIFO queue and both indexes stay empty
C7_EveryJobCompletes ==
  <>[](Quiescent /\ \A j \in JobIds : Recorded(j))

\* more jobs than the ceiling, with distinct fingerprints: all are in
\* completed-history, none is left
C7_Witness ==
  /\ Len(jobs) = MaxJobs
  /\ Len(jobs) > max_concurrent_tests
  /\ Len(completed_tests) = MaxJobs
  /\ \A j \in JobIds : Recorded(j)
  /\ Quiescent

\* ------------------------------------------------------------------ C8
\* C8: completed_tests never holds more than 100 entries where another task
\* can see it; an entry leaves it only when a completion finds it full, and
\* the entry that leaves is not newer than any entry that stays
C8_BoundedHistory ==
  /\ [](Len(completed_tests) <= HistoryCapacity)
  /\ [][\A i \in 1..Len(completed_tests) :
          completed_tests[i].key \notin OrderedKeys(completed_tests')
          => /\ Len(completed_tests) = HistoryCapacity
             /\ Len(completed_tests') = HistoryCapacity
             /\ \A x \in 1..Len(completed_tests') :
                  jobs[completed_tests[i].job].completed_at
                    <= jobs'[completed_tests'[x].job].completed_at]_vars

\* two completions on a full history: both are recorded, two entries left
C8_Witness ==
  /\ Len(completed_tests) = HistoryCapacity
  /\ Cardinality(FPs \cap OrderedKeys(completed_tests)) = 2

\* ------------------------------------------------------------------ C9
Rank(st) == IF st = QUEUED THEN 0 ELSE IF st = RUNNING THEN 1 ELSE 2

\* C9: a job's status only moves forward along Queued, Running,
\* Completed or Failed, and a Completed or Failed job keeps its status
C9_StatusMovesForward ==
  [][\A j \in JobIds :
       /\ Rank(jobs'[j].status) >= Rank(jobs[j].status)
       /\ Terminal(j) => jobs'[j].status = jobs[j].status]_vars

\* one job went through Running to Completed, one failed at admission
C9_Witness ==
  /\ \E j \in JobIds : jobs[j].status = COMPLETED /\ jobs[j].started_at # NoTime
  /\ \E j \in JobIds : jobs[j].status = FAILED /\ jobs[j].task = "none"

\* ----------------------------------------------------------------- C10
\* C10: after an iteration of the admission loop raised (a job went from
\* Queued to Failed), the available permits equal max_concurrent_tests minus
\* the number of running execution units
C10_PermitAfterAdmissionError ==
  [][(\E j \in JobIds : jobs[j].status = QUEUED /\ jobs'[j].status = FAILED)
       => sem_value' = max_concurrent_tests - Cardinality({j \in JobIds : jobs'[j].task = "created"})]_vars

\* ----------------------------------------------------------------- C11
\* C11: an exception raised while admitting a job never stops the admission
\* loop: the loop task is never finished while a job waits in the FIFO
\* queue behind the one whose admission raised
C11_LoopSurvivesAdmissionError ==
  ~(/\ loop_pc = "done"
    /\ \E b \in JobIds : jobs[b].status = FAILED /\ jobs[b].task = "none"
    /\ \E j \in QueueItems : jobs[j].status = QUEUED)

\* ----------------------------------------------------------------- C12
\* C12: when the suite's construction or run() raises inside a job
\* submitted through run_test, the job ends Failed, its permit is released
\* (to the waiting loop or to the counter) and the failure descriptor is
\* sent to the sink
C12_SuiteExceptionFailsJob ==
  [][\A j \in JobIds :
       SuiteEnded(j, "raised")
       => /\ jobs'[j].status = FAILED
          /\ sink' = Append(sink, FailureMessage(j))
          /\ IF loop_pc = "acquire" /\ ~loop_cancel
             THEN loop_pc' = "granted"
             ELSE sem_value' = sem_value + 1]_vars

\* ----------------------------------------------------------------- C13
NotificationsOf(j) == {i \in 1..Len(sink) : sink[i].job = j}

\* C13: every job run through run_test gets exactly one notification, made
\* when its suite ends: the result summary when run() returned, the failure
\* message when it raised; a job whose suite has not ended has none
C13_ExactlyOneNotification ==
  /\ [](\A j \in JobIds :
          Cardinality(NotificationsOf(j)) = IF jobs[j].task = "done" THEN 1 ELSE 0)
  /\ [][\A j \in JobIds : \A o \in Outcomes :
          SuiteEnded(j, o)
          => /\ Len(sink') = Len(sink) + 1
             /\ sink'[Len(sink')].job = j
             /\ sink'[Len(sink')].call =
                  IF o = "raised" THEN "send_message"
                  ELSE "send_test_result_notification"]_vars

\* one suite returned a result that did not pass and one raised: the sink
\* holds one result summary and one failure message, for different jobs
C13_Witness ==
  /\ Len(sink) = 2
  /\ sink[1].job # sink[2].job
  /\ \E i \in 1..2 : sink[i].call = "send_message"
  /\ \E i \in 1..2 :
       sink[i].call = "send_test_result_notification" /\ ~sink[i].test_passed

\* ----------------------------------------------------------------- C14
\* C14: submission never blocks on execution: in every state run_test can
\* take its step for every request (while the model still takes calls),
\* and the step answers 200, 400 or 409 without taking a permit and without
\* any job being admitted or finished in it
C14_SubmissionNeverBlocks ==
  /\ [](\A r \in Requests : NumSubmitted < MaxJobs => ENABLED RunTest(r))
  /\ [][\A r \in Requests :
          RunTest(r)
          => /\ response'.code \in {200, 400, 409}
             /\ sem_value' = sem_value
             /\ running_tests' = running_tests
             /\ completed_tests' = completed_tests
             /\ \A j \in JobIds : jobs'[j] = jobs[j]
             /\ response'.code = 200
                  => /\ Len(jobs') = Len(jobs) + 1
                     /\ jobs'[Len(jobs')].status = QUEUED]_vars

\* a submission was accepted while max_concurrent_tests jobs were running
\* and an earlier job was waiting for a permit
C14_Witness ==
  /\ Cardinality(RunningUnits) = max_concurrent_tests
  /\ sem_value = 0
  /\ loop_pc = "acquire"
  /\ loop_held # 0
  /\ queue # <<>>
  /\ response.code = 200
  /\ jobs[Len(jobs)].status = QUEUED
  /\ loop_held < Len(jobs)

\* ----------------------------------------------------------------- C15
\* C15: get_queue_status() reports the configured ceiling, the number of
\* jobs in state Running, the number of jobs in state Queued and the number
\* of entries of completed-history
C15_QueueStatusCounts ==
  /\ get_queue_status.max_concurrent_tests = max_concurrent_tests
  /\ get_queue_status.currently_running =
       Cardinality({j \in JobIds : jobs[j].status = RUNNING})
  /\ get_queue_status.queued =
       Cardinality({j \in JobIds : jobs[j].status = QUEUED})
  /\ get_queue_status.recently_completed = Len(completed_tests)

\* ----------------------------------------------------------------- C16
\* C16: get_duplicate_info(request) is None exactly when
\* is_duplicate(request) is false; otherwise it carries the request_id and
\* the current status of the existing job, with started_at when the job is
\* in the running-index and queued_at when it is in the queued-index
C16_DuplicateInfo ==
  \A f \in FPs :
    /\ (get_duplicate_info(f) = NoInfo) <=> ~is_duplicate(f)
    /\ is_duplicate(f)
         => \E j \in JobIds :
              /\ jobs[j].request_id = f
              /\ Active(j)
              /\ get_duplicate_info(f).request_id = f
              /\ get_duplicate_info(f).status = jobs[j].status
              /\ f \in DOMAIN running_tests
                   => /\ running_tests[f] = j
                      /\ get_duplicate_info(f).field = "started_at"
                      /\ get_duplicate_info(f).at = jobs[j].started_at
                      /\ jobs[j].started_at # NoTime
              /\ f \notin DOMAIN running_tests
                   => /\ queued_tests[f] = j
                      /\ get_duplicate_info(f).field = "queued_at"
                      /\ get_duplicate_info(f).at = jobs[j].queued_at

\* one fingerprint is running, one is queued and was submitted later, and
\* the two summaries differ in state and in the timestamp they carry
C16_Witness ==
  \E f, g \in FPs :
    /\ get_duplicate_info(f).status = RUNNING
    /\ get_duplicate_info(f).field = "started_at"
    /\ get_duplicate_info(g).status = QUEUED
    /\ get_duplicate_info(g).field = "queued_at"
    /\ get_duplicate_info(g).at > get_duplicate_info(f).at

\* ----------------------------------------------------------------- C17
\* the force-cancel of j's execution unit has taken effect
ForceCancelled(j) ==
  \/ jobs[j].task = "cancelled"
  \/ jobs[j].task = "done" /\ jobs[j].status = RUNNING

\* C17: once the execution unit of a running job has been force-cancelled,
\* the completion cleanup has run: completed_at is stamped, the job has left
\* running_tests and is recorded in completed_tests, and its permit is
\* back (every permit is free, handed to the loop or held by a live unit)
C17_CancelStillCleansUp ==
  \A j \in JobIds :
    ForceCancelled(j)
    => /\ jobs[j].completed_at # NoTime
       /\ ~(/\ jobs[j].request_id \in DOMAIN running_tests
             /\ running_tests[jobs[j].request_id] = j)
       /\ \E i \in 1..Len(completed_tests) :
            /\ completed_tests[i].key = jobs[j].request_id
            /\ completed_tests[i].job >= j
       /\ sem_value + (IF loop_pc = "granted" THEN 1 ELSE 0)
            = max_concurrent_tests
              - Cardinality({u \in JobIds : jobs[u].task \in {"created", "cancelling"}})

\* ----------------------------------------------------------------- C18
\* C18: once cancel() was called on the admission loop, that loop admits no
\* further job (a later enqueue starts a new loop), while cancelling it
\* leaves the running execution units alone: the cancellation changes no
\* job and no index, and a unit that ends afterwards is recorded in
\* completed-history with a terminal state and returns its permit
C18_LoopCancelSparesRunningUnits ==
  /\ [][(loop_cancel \/ loop_pc = "done") => admitted' = admitted]_vars
  /\ [][(loop_cancel' # loop_cancel)
         => /\ jobs' = jobs
            /\ running_tests' = running_tests
            /\ completed_tests' = completed_tests]_vars
  /\ [][\A j \in JobIds :
          (/\ loop_cancel \/ loop_pc = "done"
           /\ jobs[j].task = "created"
           /\ jobs'[j].task # "created")
          => /\ jobs'[j].status \in {COMPLETED, FAILED}
             /\ jobs'[j].completed_at = now
             /\ jobs[j].request_id \notin DOMAIN running_tests'
             /\ \E i \in 1..Len(completed_tests') :
                  completed_tests'[i] = [key |-> jobs[j].request_id, job |-> j]
             /\ sem_value' = sem_value + 1]_vars

\* the loop was cancelled while it waited for a permit with a job in hand
\* (that job is still Queued and in no queue); every unit that was running
\* has ended since, is in a terminal state, and all permits are free
C18_Witness ==
  /\ loop_pc = "done"
  /\ \E j \in JobIds : jobs[j].status = QUEUED /\ j \notin QueueItems
  /\ RunningUnits = {}
  /\ \E k \in JobIds : jobs[k].task = "done" /\ Terminal(k)
  /\ sem_value = max_concurrent_tests

\* ----------------------------------------------------------------- C19
\* C19: the verdict of TestOAIAzureRelease is total_failures /
\* total_requests < max_failure_rate, strictly: a run passes only when its
\* failures stay below the threshold's share of its requests, and a failure
\* rate equal to max_failure_rate does not pass
C19_StrictVerdict ==
  (probe.pc = "done" /\ total_requests(probe) > 0)
  => /\ probe.test_passed
         <=> (total_failures(probe) * probe.max_failure_rate.den
                < probe.max_failure_rate.num * total_requests(probe))
     /\ (total_failures(probe) * probe.max_failure_rate.den
           = probe.max_failure_rate.num * total_requests(probe))
         => probe.test_passed = FALSE

\* a finished run with failures and successes whose failure rate is exactly
\* max_failure_rate: it did not pass
C19_Witness ==
  /\ probe.pc = "done"
  /\ total_requests(probe) > total_failures(probe)
  /\ total_failures(probe) > 0
  /\ total_failures(probe) * probe.max_failure_rate.den
       = probe.max_failure_rate.num * total_requests(probe)
  /\ probe.test_passed = FALSE

\* ----------------------------------------------------------------- C20
\* C20: a failed attempt never aborts the run: every iteration appends
\* exactly one Attempt Record to the sequence of the model it targets and
\* goes on to the sleep, whatever the outcome of the request, and run()
\* ends only at a loop test made at or after the deadline
C20_FailedAttemptsDoNotAbort ==
  /\ [][(probe.pc = "post" /\ probe'.pc # "post")
         => /\ probe'.pc = "sleep"
            /\ Len(probe'.results[probe.current]) = Len(probe.results[probe.current]) + 1
            /\ probe'.results[probe.current][Len(probe'.results[probe.current])].model
                 = probe.current
            /\ \A m \in ModelNames(probe) :
                 m # probe.current => probe'.results[m] = probe.results[m]]_vars
  /\ [](probe.pc = "done"
         => /\ probe.end_time >= probe.start_time + probe.duration_hours
            /\ total_requests(probe) = probe.model_index)

\* a finished run of three attempts that all failed, one on a status other
\* than 200, one on an unparsable body and one on an exception
C20_Witness ==
  /\ probe.pc = "done"
  /\ total_requests(probe) = 3
  /\ total_failures(probe) = 3
  /\ \E a, b, c \in Attempts(probe) :
       /\ probe.results[a[1]][a[2]].status_code = HTTP_ERROR_STATUS_CODE
       /\ probe.results[b[1]][b[2]].status_code = NoStatusCode
       /\ probe.results[c[1]][c[2]].status_code = HTTP_SUCCESS_STATUS_CODE
       /\ ~probe.results[c[1]][c[2]].success

\* ----------------------------------------------------------------- C21
\* C21: an Attempt Record has success = true if and only if the status is
\* 200 and the body parsed as JSON; in every other case success = false and
\* the error field is not null
C21_AttemptRecordSuccess ==
  \A a \in Attempts(probe) :
    LET rec == probe.results[a[1]][a[2]]
    IN /\ rec.success
            <=> (rec.status_code = HTTP_SUCCESS_STATUS_CODE /\ rec.response_data)
       /\ ~rec.success => rec.error # NoError

\* ----------------------------------------------------------------- C22
\* the iterations of the loop whose request has returned
CompletedIterations(pr) ==
  IF pr.pc = "post" THEN pr.model_index - 1 ELSE pr.model_index

\* how many of the iterations 0..k-1 have models[i mod len(models)] = m
TargetedBy(pr, m, k) ==
  Cardinality({i \in 0..(k - 1) : pr.models[(i % Len(pr.models)) + 1] = m})

\* the position at which the name m is listed first
FirstListed(pr, m) ==
  CHOOSE i \in 1..Len(pr.models) :
    /\ pr.models[i] = m
    /\ \A k \in 1..(i - 1) : pr.models[k] # m

\* the i-th iteration targeted models[i mod len(models)]: every model has
\* as many attempts as completed iterations selected it
IterationTargets ==
  \A m \in ModelNames(probe) :
    Len(probe.results[m]) = TargetedBy(probe, m, CompletedIterations(probe))

\* the attempt counts of two models differ by at most one, and the model
\* listed earlier has at least as many
BalancedCounts ==
  \A m1, m2 \in ModelNames(probe) :
    /\ Len(probe.results[m1]) - Len(probe.results[m2]) \in {-1, 0, 1}
    /\ FirstListed(probe, m1) < FirstListed(probe, m2)
         => Len(probe.results[m1]) >= Len(probe.results[m2])

\* no name is listed twice
DistinctModels(pr) == Cardinality(ModelNames(pr)) = Len(pr.models)

\* C22 as stated: the i-th iteration targets models[i mod len(models)], and
\* therefore, after any number of iterations, the attempt counts of two
\* distinct models differ by at most one and an earlier-listed model never
\* has fewer attempts than a later-listed one
C22_RoundRobinBalanced == IterationTargets /\ BalancedCounts

\* C22 amended: the i-th iteration targets models[i mod len(models)]; when
\* no name is listed twice, the attempt counts of two models differ by at
\* most one and an earlier-listed model never has fewer attempts than a
\* later-listed one
C22_RoundRobinDistinct ==
  /\ IterationTargets
  /\ DistinctModels(probe) => BalancedCounts

\* a list of distinct names has been gone through more than once and the
\* first model is one attempt ahead of the last
C22_Witness ==
  /\ DistinctModels(probe)
  /\ Len(probe.models) >= 2
  /\ CompletedIterations(probe) > Len(probe.models)
  /\ Len(probe.results[probe.models[1]])
       = Len(probe.results[probe.models[Len(probe.models)]]) + 1

\* ----------------------------------------------------------------- C23
\* C23: within one run at most one HTTP client is created; once it exists
\* every later request uses it, it is neither closed nor replaced while the
\* loop runs, and a run that ends on the deadline has closed it exactly once
\* when the results are computed
C23_OneClientPerRun ==
  /\ [](probe.created <= 1)
  /\ [](probe.pc \in {"post", "sleep"} => probe.client = "open" /\ probe.closed = 0)
  /\ [][probe.client = "open" /\ probe'.pc # "done"
         => probe'.client = "open" /\ probe'.created = probe.created]_vars
  /\ [](probe.pc = "done" /\ probe.created > 0
         => probe.client = "closed" /\ probe.closed = 1)

\* a finished run of three requests that made one client and closed it
C23_Witness ==
  /\ probe.pc = "done"
  /\ total_requests(probe) = 3
  /\ probe.created = 1
  /\ probe.closed = 1
  /\ probe.client = "closed"

\* ----------------------------------------------------------------- C30
\* C30: on every exit path of a run that has created its HTTP client (the
\* deadline, an exception that leaves run(), the force-cancellation of the
\* job), the client is closed
C30_ClientClosedOnEveryExit ==
  probe.pc \in {"done", "cancelled"} /\ probe.created > 0
    => probe.client = "closed"

\* ----------------------------------------------------------------- C24
\* the orders the list s can be given in
ListOrders(s) ==
  {[i \in 1..Len(s) |-> s[f[i]]] :
     f \in {g \in [1..Len(s) -> 1..Len(s)] :
              \A i, k \in 1..Len(s) : g[i] = g[k] => i = k}}

\* C24: the request id does not depend on the order of the models: a
\* request equal to this one in every field, with the same models in
\* another order, gets the same request id
C24_ModelOrderInsensitive ==
  idgen.pc = "done"
    => \A l \in ListOrders(idgen.request.models) :
         generate_request_id([idgen.request EXCEPT !.models = l]) = idgen.request_id

\* the id of a request with two different models, listed in descending
\* order, has been generated
C24_Witness ==
  /\ idgen.pc = "done"
  /\ Len(idgen.request.models) = 2
  /\ idgen.request.models[1] > idgen.request.models[2]

\* ----------------------------------------------------------------- C25
\* how often the name x is in the list s
CountOf(s, x) == Cardinality({i \in 1..Len(s) : s[i] = x})

\* the two requests differ in a field, in the multiset of their models or
\* in an optional parameter (unset or set, or set to another value)
Differ(r1, r2) ==
  \/ r1.test_suite # r2.test_suite
  \/ r1.deployment_url # r2.deployment_url
  \/ r1.api_key # r2.api_key
  \/ \E x \in IdStrings : CountOf(r1.models, x) # CountOf(r2.models, x)
  \/ r1.duration_hours # r2.duration_hours
  \/ r1.max_failure_rate # r2.max_failure_rate
  \/ r1.request_interval_seconds # r2.request_interval_seconds

Interpolated(d, p) ==
  LET n == Len(d)
      knum == (n - 1) * p.num
      f == CHOOSE i \in 0..(n - 1) : i * p.den <= knum /\ knum < (i + 1) * p.den
      c == IF f + 1 <= n - 1 THEN f + 1 ELSE n - 1
  IN [num |-> d[f + 1] * p.den + (knum - f * p.den) * (d[c + 1] - d[f + 1]),
      den |-> p.den]

\* C26: for a non-empty ascending list and p in [0, 1], _percentile is the
\* linear interpolation d[f] + (k - f) * (d[c] - d[f]); for [1, 2, 3, 4, 5]
\* the p50 is 3 and the p95 and p99 are 4.8 and 4.96, strictly between 4
\* and 5
C26_PercentileInterpolates ==
  perf.pc = "done" /\ perf.sorted_data # <<>>
    => /\ FracEq(perf.result, Interpolated(perf.sorted_data, perf.p))
       /\ perf.sorted_data = <<1, 2, 3, 4, 5>>
            => /\ perf.p = [num |-> 50, den |-> 100]
                    => FracEq(perf.result, [num |-> 3, den |-> 1])
               /\ perf.p = [num |-> 95, den |-> 100]
                    => FracEq(perf.result, [num |-> 48, den |-> 10])
               /\ perf.p = [num |-> 99, den |-> 100]
                    => FracEq(perf.result, [num |-> 496, den |-> 100])
               /\ perf.p \in {[num |-> 95, den |-> 100], [num |-> 99, den |-> 100]}
                    => /\ FracLess([num |-> 4, den |-> 1], perf.result)
                       /\ FracLess(perf.result, [num |-> 5, den |-> 1])

\* the p99 of [1, 2, 3, 4, 5] has been computed
C26_Witness ==
  /\ perf.pc = "done"
  /\ perf.sorted_data = <<1, 2, 3, 4, 5>>
  /\ perf.p = [num |-> 99, den |-> 100]
  /\ perf.result.num * 100 = 496 * perf.result.den

\* ----------------------------------------------------------------- C27
\* C27: when enqueue returns, the job it returns is Queued, is the entry of
\* queued_tests under its request id, and is the one new item at the tail
\* of the FIFO queue; nothing was admitted inside the call: no job was
\* marked running, no permit was taken and running_tests is as before
C27_EnqueueOnlyQueues ==
  [][Len(jobs') = Len(jobs) + 1
       => LET j == Len(jobs')
          IN /\ jobs'[j].status = QUEUED
             /\ jobs'[j].request_id \in DOMAIN queued_tests'
             /\ queued_tests'[jobs'[j].request_id] = j
             /\ queue' = Append(queue, j)
             /\ \A k \in JobIds : jobs'[k] = jobs[k]
             /\ running_tests' = running_tests
             /\ sem_value' = sem_value
             /\ admitted' = admitted]_vars

\* two different requests were enqueued before the loop ran: two request
\* ids in queued_tests and a queue of two
C27_Witness ==
  /\ Len(jobs) = 2
  /\ Len(queue) = 2
  /\ jobs[1].request_id # jobs[2].request_id
  /\ Cardinality(DOMAIN queued_tests) = 2
  /\ jobs[1].status = QUEUED /\ jobs[2].status = QUEUED

\* ----------------------------------------------------------------- C28
\* the admission loop task exists and has not exited
LoopAlive == loop_pc \notin {"none", "done"}

\* the step is a call of enqueue: a well-formed job is created
EnqueueStep == Len(jobs') = Len(jobs) + 1 /\ ~Malformed(jobs'[Len(jobs')])

\* C28: at most one admission loop is alive: there is none before the
\* first enqueue, a loop is started only by an enqueue that finds none or
\* finds that the previous one has exited, and an enqueue that finds a live
\* loop leaves it as it is
C28_SingleAdmissionLoop ==
  /\ [](jobs = <<>> => loop_pc = "none")
  /\ [][~LoopAlive /\ loop_pc' # loop_pc => EnqueueStep /\ loop_pc' = "get"]_vars
  /\ [][EnqueueStep
         => IF LoopAlive
            THEN loop_pc' = loop_pc /\ loop_held' = loop_held
            ELSE loop_pc' = "get" /\ loop_held' = 0]_vars

\* a second loop is alive: the first one exited on a malformed job, and a
\* job enqueued after that is being handled
C28_Witness ==
  /\ LoopAlive
  /\ \E j \in JobIds : Malformed(jobs[j]) /\ jobs[j].status = FAILED
  /\ \E j \in JobIds : ~Malformed(jobs[j]) /\ j \in QueueItems

\* ----------------------------------------------------------------- C29
\* C29: get_running_tests() lists exactly the jobs of running_tests, every
\* listed job has status "running" and a started_at that is not None, and
\* the listing is empty when no job is running
C29_RunningTestsListing ==
  /\ DOMAIN get_running_tests = DOMAIN running_tests
  /\ \A request_id \in DOMAIN get_running_tests :
       /\ get_running_tests[request_id].status = RUNNING
       /\ get_running_tests[request_id].started_at # NoTime
       /\ get_running_tests[request_id].started_at
            = jobs[running_tests[request_id]].started_at
  /\ (\A j \in JobIds : jobs[j].status # RUNNING) => get_running_tests = EmptyDict

\* two jobs are listed as running
C29_Witness ==
  /\ Cardinality(DOMAIN get_running_tests) = 2
  /\ \A request_id \in DOMAIN get_running_tests :
       get_running_tests[request_id].status = RUNNING

\* ----------------------------------------------------------------- C32
\* C32: no job is lost when the admission loop is cancelled: every job of
\* queued_tests is still in the FIFO queue or is held by a live admission
\* loop, so a loop started later can still admit it
C32_NoJobLostOnLoopCancel ==
  \A request_id \in DOMAIN queued_tests :
    \/ queued_tests[request_id] \in QueueItems
    \/ LoopAlive /\ loop_held = queued_tests[request_id]

\* ----------------------------------------------------------------- C33
\* C33 as stated: whenever tasks can interleave, the available permits plus
\* the number of jobs in running_tests equal max_concurrent_tests
C33_PermitAccounting ==
  sem_value + Cardinality(DOMAIN running_tests) = max_concurrent_tests

\* C33 amended: whenever tasks can interleave, the available permits, plus
\* the permit release() has handed to the waiting admission loop, plus the
\* number of jobs in running_tests equal max_concurrent_tests
C33_PermitAccountingWithHandOver ==
  sem_value + (IF loop_pc = "granted" THEN 1 ELSE 0)
    + Cardinality(DOMAIN running_tests) = max_concurrent_tests

\* a unit has ended and its permit was handed to the loop, which waited
\* with a job and has not run yet
C33_Witness ==
  /\ loop_pc = "granted"
  /\ loop_held # 0
  /\ sem_value = 0
  /\ Cardinality(DOMAIN running_tests) = max_concurrent_tests - 1

\* ----------------------------------------------------------------- C34
\* C34: every entry of completed_tests has status Completed or Failed and a
\* completed_at that is not None
C34_HistoryIsTerminal ==
  \A i \in 1..Len(completed_tests) :
    /\ jobs[completed_tests[i].job].status \in {COMPLETED, FAILED}
    /\ jobs[completed_tests[i].job].completed_at # NoTime

\* ----------------------------------------------------------------- C35
\* C35: the two indexes are disjoint, a job is the entry of queued_tests
\* under its request id exactly while its status is Queued, and the entry
\* of running_tests exactly while its status is Running
C35_IndexesFollowStatus ==
  /\ (DOMAIN queued_tests) \cap (DOMAIN running_tests) = {}
  /\ \A j \in JobIds :
       /\ jobs[j].status = QUEUED
            <=> (/\ jobs[j].request_id \in DOMAIN queued_tests
                 /\ queued_tests[jobs[j].request_id] = j)
       /\ jobs[j].status = RUNNING
            <=> (/\ jobs[j].request_id \in DOMAIN running_tests
                 /\ running_tests[jobs[j].request_id] = j)


\* ------------------------------------------------------------------ C36
HistoryJobs(od) == {od[i].job : i \in 1..Len(od)}

\* C36: completed_tests has at most one entry per fingerprint; a job that is
\* recorded while its fingerprint has an entry of an earlier run takes the
\* place of that entry: the history has the same size and the same
\* fingerprints as before
C36_OneEntryPerFingerprint ==
  /\ [](\A i, x \in 1..Len(completed_tests) :
          completed_tests[i].key = completed_tests[x].key => i = x)
  /\ [][\A j \in HistoryJobs(completed_tests') \ HistoryJobs(completed_tests) :
          jobs'[j].request_id \in OrderedKeys(completed_tests)
          => /\ Len(completed_tests') = Len(completed_tests)
             /\ OrderedKeys(completed_tests') = OrderedKeys(completed_tests)
             /\ \A i \in 1..Len(completed_tests) :
                  completed_tests'[i] =
                    IF completed_tests[i].key = jobs'[j].request_id
                    THEN [key |-> jobs'[j].request_id, job |-> j]
                    ELSE completed_tests[i]]_vars

\* a full history in which the second run of a fingerprint has replaced the
\* entry of its first run
C36_Witness ==
  /\ Len(completed_tests) = HistoryCapacity
  /\ \E j, j2 \in JobIds :
       /\ j2 < j
       /\ jobs[j].request_id = jobs[j2].request_id
       /\ jobs[j2].completed_at # NoTime
       /\ jobs[j].completed_at # NoTime
       /\ j \in HistoryJobs(completed_tests)
       /\ j2 \notin HistoryJobs(completed_tests)


\* ------------------------------------------------------------------ C37
\* slack_webhook.webhook_url = value: the attribute that run_test reads is
\* set or cleared between two calls
SetWebhookUrl(value) ==
  /\ value # webhook_url
  /\ webhook_url' = value
  /\ UNCHANGED <<now, jobs, queue, unfinished_tasks, queued_tests,
                 running_tests, completed_tests, sem_value, loop_pc,
                 loop_held, loop_cancel, admitted, test_runner, sink, probe,
                 idgen, perf, max_concurrent_tests, response>>

\* A server whose webhook URL is set or cleared while jobs are active
NextWebhook ==
  \/ \E r \in Requests : RunTest(r)
  \/ ProcessQueue({})
  \/ \E j \in JobIds : UnitCompleted(j)
  \/ \E j \in JobIds : UnitFailed(j)
  \/ \E value \in BOOLEAN : SetWebhookUrl(value)

SpecWebhook == Init /\ [][NextWebhook]_vars

\* C37: run_test answers 400 exactly for a suite that is not registered
\* and, the suite being registered, for a request that is no duplicate while
\* no webhook URL is set (a duplicate is answered 409 also without a webhook
\* URL); a call answered 400 enqueues nothing and leaves the queue, the
\* indexes, the completed-history and the admission loop as they were
C37_RejectionChangesNothing ==
  [][\A r \in Requests :
       RunTest(r)
       => /\ response'.code = 400
               <=> \/ ~r.suite_known
                   \/ ~is_duplicate(r.request_id) /\ ~webhook_url
          /\ response'.code = 409
               <=> r.suite_known /\ is_duplicate(r.request_id)
          /\ response'.code = 400
               => UNCHANGED <<jobs, queue, unfinished_tasks, queued_tests,
                              running_tests, completed_tests, sem_value,
                              loop_pc, loop_held, loop_cancel, admitted,
                              sink>>]_vars

\* a call was answered 400 while a job was active and no webhook URL was set
C37_Witness ==
  /\ response.code = 400
  /\ ~webhook_url
  /\ \E j \in JobIds : ~Terminal(j)

\* a duplicate submitted while no webhook URL is set was answered 409
C37_WitnessDuplicateFirst ==
  /\ response.code = 409
  /\ ~webhook_url


\* ------------------------------------------------------------------ C39
\* C39: in the summary of a TestOAIAzureRelease run the successes and the
\* failures of every model add up to its total_requests, which is the number
\* of its attempts; the overall totals are the numbers of all attempts, of
\* the successful and of the failed ones; a model, and a run, without
\* attempts has failure rate 0, and a run without attempts passes exactly
\* when max_failure_rate is above 0
C39_SummaryTotals ==
  probe.pc = "done"
  => /\ \A m \in ModelNames(probe) :
          LET st == calculate_model_statistics(probe.results[m])
          IN /\ st.successes + st.failures = st.total_requests
             /\ st.total_requests = Cardinality({a \in Attempts(probe) : a[1] = m})
             /\ st.failures =
                  Cardinality({a \in Attempts(probe) :
                                 a[1] = m /\ ~probe.results[m][a[2]].success})
             /\ st.total_requests = 0 => st.failure_rate.num = 0
     /\ total_requests(probe) = Cardinality(Attempts(probe))
     /\ total_successes(probe) =
          Cardinality({a \in Attempts(probe) : probe.results[a[1]][a[2]].success})
     /\ total_failures(probe) =
          Cardinality({a \in Attempts(probe) : ~probe.results[a[1]][a[2]].success})
     /\ total_requests(probe) = 0
          => /\ overall_failure_rate(probe).num = 0
             /\ probe.test_passed <=> probe.max_failure_rate.num > 0

\* a finished run with a successful and a failed attempt and a model that
\* was never tried
C39_Witness ==
  /\ probe.pc = "done"
  /\ total_successes(probe) > 0
  /\ total_failures(probe) > 0
  /\ \E m \in ModelNames(probe) : probe.results[m] = <<>>

\* a finished run without any attempt
C39_WitnessNoAttempts ==
  /\ probe.pc = "done"
  /\ total_requests(probe) = 0
  /\ probe.max_failure_rate.num > 0
  /\ probe.test_passed = TRUE


\* ------------------------------------------------------------------ C40
RECURSIVE ExpectedPosts(_, _)
\* the positions 1..count, each repeated requests times, in order
ExpectedPosts(count, requests) ==
  IF count = 0 THEN <<>>
  ELSE ExpectedPosts(count - 1, requests) \o [x \in 1..requests |-> count]

\* C40: TestAccessGroupPerf sends requests_per_scenario requests for each
\* scenario, the scenarios in list order, whatever the outcome of a
\* request; the result of every finished scenario has requests_per_scenario
\* durations, and its successes and failures add up to that number
C40_RequestsPerScenario ==
  /\ perf.pc \notin {"none", "new"}
       => /\ \A x \in 1..Len(perf.finished) :
               /\ perf.finished[x].scenario = perf.scenarios[x]
               /\ Len(perf.finished[x].durations) = perf.requests_per_scenario
               /\ perf.finished[x].successes + perf.finished[x].failures
                    = perf.requests_per_scenario
          /\ \A name \in DOMAIN perf.scenario_results :
               /\ Len(perf.scenario_results[name].durations) = perf.requests_per_scenario
               /\ perf.scenario_results[name].successes
                    + perf.scenario_results[name].failures
                    = perf.requests_per_scenario
          /\ \A x \in 1..(Len(perf.posts) - 1) : perf.posts[x] <= perf.posts[x + 1]
  /\ perf.pc = "done"
       => /\ Len(perf.finished) = Len(perf.scenarios)
          /\ perf.posts = ExpectedPosts(Len(perf.scenarios), perf.requests_per_scenario)

\* a finished run of two scenarios of two requests each, the first scenario
\* with failed requests only, the second with both outcomes
C40_Witness ==
  /\ perf.pc = "done"
  /\ Len(perf.finished) = 2
  /\ perf.requests_per_scenario = 2
  /\ perf.finished[1].failures = 2
  /\ perf.finished[2].failures = 1
  /\ perf.finished[2].successes = 1


\* ------------------------------------------------------------------ C38
\* C38: a step of a TestOAIAzureRelease run emits a progress observation
\* exactly when it records an attempt that brings the number of attempts
\* over all models to a multiple of PROGRESS_REPORT_INTERVAL
C38_ProgressEveryTenthAttempt ==
  [][probe'.progress # probe.progress
       <=> /\ total_requests(probe') # total_requests(probe)
           /\ total_requests(probe') % PROGRESS_REPORT_INTERVAL = 0]_vars

\* with one name in the model list the reports come at every tenth attempt
C38_SingleModelProgress ==
  Cardinality(ModelNames(probe)) = 1
    => probe.progress = total_requests(probe) \div PROGRESS_REPORT_INTERVAL


\* ------------------------------------------------------------------ C31
\* C31: a job whose execution unit the admission loop creates is run by the
\* test_runner of the enqueue call that submitted that job
C31_JobRunsOwnRunner ==
  [][\A j \in JobIds :
       jobs[j].task = "none" /\ jobs'[j].task = "created" => test_runner = j]_vars

====
